---- MODULE Spec2Model ----
(***************************************************************************)
(* The Outer Relay (vsock-proxy) of nitro-enclaves-simulation: startup     *)
(* (socket, bind with retry, listen), the accept loop and the handler      *)
(* goroutine started for every accepted connection.                       *)
(*                                                                         *)
(* The repository holds two copies of the Outer Relay:                     *)
(*   "part_001"  src/unnamed/part_001        (bind retry, KMS check)       *)
(*   "cmd_main"  src/cmd/vsock-proxy/main.go (single bind attempt)         *)
(* The variable `variant` says which copy the modelled process runs; it    *)
(* is "both" where one process of each copy runs side by side (PairSpec).  *)
(*                                                                         *)
(* A socket is identified by the index of its record in `socks`: the       *)
(* kernel socket object behind a descriptor, so that a socket recreated    *)
(* after a Close is a different handle even when the kernel hands out the  *)
(* same descriptor number again.                                           *)
(***************************************************************************)
EXTENDS Integers, Sequences, FiniteSets, TLC

\* ---------------------------------------------------------------- bounds
\* connections the environment opens against the relay
MaxConns == 2
\* failed accepts the environment injects
MaxAcceptErrors == 1
\* bind attempts for which another process may hold the address
MaxHeld == 6
\* lines the Connector reads from its console
MaxLines == 2
\* length of the strings tried as the value of VSOCK_PORT
MaxEnvLen == 2

\* ------------------------------------------------------ program constants
\* part_001:84  maxRetries := 5
maxRetries == 5

\* part_001:222, cmd_main:103 (handler), cmd_main:257 (connector)
\* make([]byte, 4096)
BufSize == 4096

Variants == {"part_001", "cmd_main"}
ConnIds == 1..MaxConns
\* the request the peer of connection c sends (the bytes one Read returns):
\* every connection carries its own payload
Request(c) == <<"req", c>>

\* ------------------------------------------------------------ byte strings
\* A byte string is a sequence of byte values; text is written by its ASCII
\* codes.

Min(a, b) == IF a <= b THEN a ELSE b

Bytes(n, b) == [k \in 1..n |-> b]

\* n, err := unix.Read(fd, buffer); buffer[:n]
\* One read returns what has arrived, at most the capacity of the buffer.
ReadInto_unbounded(avail, cap) == avail

ReadInto(avail, cap) == SubSeq(avail, 1, Min(Len(avail), cap))

\* base64.StdEncoding: the character of a 6-bit value
B64Char(v) ==
    IF v < 26 THEN 65 + v
    ELSE IF v < 52 THEN 97 + (v - 26)
    ELSE IF v < 62 THEN 48 + (v - 52)
    ELSE IF v = 62 THEN 43
    ELSE 47

B64Pad == 61

B64Len(n) == 4 * ((n + 2) \div 3)

\* part_001:266  base64.StdEncoding.EncodeToString([]byte(plaintext))
Base64(b) ==
    [k \in 1..B64Len(Len(b)) |->
        LET g == (k - 1) \div 4
            j == (k - 1) % 4
            has1 == 3 * g + 2 <= Len(b)
            has2 == 3 * g + 3 <= Len(b)
            b0 == b[3 * g + 1]
            b1 == IF has1 THEN b[3 * g + 2] ELSE 0
            b2 == IF has2 THEN b[3 * g + 3] ELSE 0
        IN  CASE j = 0 -> B64Char(b0 \div 4)
              [] j = 1 -> B64Char((b0 % 4) * 16 + (b1 \div 16))
              [] j = 2 -> IF has1 THEN B64Char((b1 % 16) * 4 + (b2 \div 64))
                          ELSE B64Pad
              [] OTHER -> IF has2 THEN B64Char(b2 % 64) ELSE B64Pad]

VARIABLES
    variant,          \* which copy of the Outer Relay runs
    heldFor,          \* environment: bind attempts during which the address is held
    portEnv,          \* environment: os.Getenv("VSOCK_PORT"), "" when unset
    addrPort,         \* addr.Port of the listening address (0 before it is built)
    mainPc,           \* position of main()
    exited,           \* the process has exited (log.Fatalf -> os.Exit)
    exitSite,         \* the error site whose log.Fatalf ended the process
    kmsCheck,         \* outcome of checkKMSConfiguration ("none" before / without)
    kmsCalls,         \* the client.Do calls checkKMSConfiguration made
    kmsReply,         \* how the check's two calls will end (<<>> where no check is made)
    socks,            \* every listening-side socket created so far
    fd,               \* main's variable fd: index into socks, 0 before Socket
    i,                \* the bind loop's counter
    bindAttempts,     \* unix.Bind calls made
    bindFailures,     \* unix.Bind calls that failed
    backoffs,         \* time.Sleep(2s) calls made
    acceptErrors,     \* unix.Accept calls that failed
    connectionCount,  \* main's variable connectionCount
    conns,            \* per accepted connection: the handler goroutine's state
    \* one request travelling Connector -> Inner Relay -> Outer Relay -> backend
    cPc,              \* position of the Connector's main()
    text,             \* Connector: the line reader.ReadString returned
    lineNo,           \* Connector: lines read so far
    cOpen,            \* Connector: its socket is open
    cLog,             \* Connector: calls made and output produced for this line
    aborts,           \* Connector: lines given up after an error so far
    result,           \* Connector: encryptedResult printed for this line
    wireCI,           \* bytes the Connector wrote to the Inner Relay
    inner,            \* the Inner Relay's handler for the Connector's connection
    wireIO,           \* bytes the Inner Relay wrote to the Outer Relay
    outer,            \* the Outer Relay's handler for the Inner Relay's connection
    kms,              \* the backend call made for this request
    wireOI,           \* bytes the Outer Relay wrote back to the Inner Relay
    wireIC,           \* bytes the Inner Relay wrote back to the Connector
    peer              \* a client connected straight to the Outer Relay

relayVars == <<heldFor, portEnv, addrPort, mainPc, exited, exitSite, kmsCheck, kmsCalls,
               kmsReply, socks, fd, i,
               bindAttempts, bindFailures, backoffs, acceptErrors,
               connectionCount, conns>>

chainVars == <<cPc, text, lineNo, cOpen, cLog, aborts, result, wireCI, inner, wireIO,
               outer, kms, wireOI, wireIC, peer>>

vars == <<variant, relayVars, chainVars>>

startupVars == <<socks, fd, i, bindAttempts, bindFailures, backoffs>>

\* ----------------------------------------------------------------- helpers

\* A connection nobody has accepted yet.
NoConn ==
    [pc |-> "none", open |-> FALSE, connID |-> 0, stalled |-> FALSE,
     plaintext |-> <<>>, encrypted |-> <<>>, written |-> <<>>,
     errsBefore |-> 0, ev |-> <<>>]

\* The Connector has printed nothing for the current line.
NoResult == [printed |-> FALSE, value |-> <<>>]

\* The Inner Relay has not accepted the Connector's connection yet.
NoInner == [pc |-> "idle", req |-> <<>>, reply |-> <<>>]

\* No backend call has been made for the current request.
NoKms == [called |-> FALSE, req |-> <<>>, resp |-> <<>>, err |-> <<>>]

\* The socket unix.Socket returns on success.
NewSock == [open |-> TRUE, bound |-> FALSE, listening |-> FALSE, binds |-> 0]

\* Which error sites end the process (log.Fatalf) and which only log
\* (log.Printf followed by continue / return).
IsFatal_acceptFatal(site) ==
    site \in {"socket", "resocket", "bind", "listen", "accept"}

IsFatal_handlerFatal(site) ==
    site \in {"socket", "resocket", "bind", "listen", "read", "encrypt", "write"}

IsFatal_listenRetried(site) ==
    site \in {"socket", "resocket", "bind"}

IsFatal_kmsFatal(site) ==
    site \in {"socket", "resocket", "bind", "listen", "kmscheck"}

IsFatal(site) ==
    site \in {"socket", "resocket", "bind", "listen"}

\* log.Fatalf / log.Printf at an error site.
LogError(site) ==
    IF IsFatal(site)
    THEN exited' = TRUE /\ exitSite' = site
    ELSE UNCHANGED <<exited, exitSite>>

\* unix.Bind(fd, addr) succeeds on an open socket once the address is free:
\* another process holds it during the first heldFor attempts.
BindSucceeds == socks[fd].open /\ bindAttempts >= heldFor

\* part_001:89  unix.Close(fd) on the socket whose bind failed
CloseSock(s) == [s EXCEPT !.open = FALSE]

\* part_001:93  fd, err = unix.Socket(...): main's fd becomes the new socket
RecreatedFd_stale(old, new) == old

RecreatedFd(old, new) == new

\* part_001:87  if i < maxRetries-1 { ... continue } else { log.Fatalf }
\* cmd_main:54  no retry: the first failure is fatal.
CanRetry_offByOne(v, k) ==
    v = "part_001" /\ k < maxRetries - 2

CanRetry(v, k) ==
    v = "part_001" /\ k < maxRetries - 1

\* No client is connected straight to the Outer Relay.
\*   request  all the bytes the client sends
\*   pending  the part of them that has not arrived yet
NoPeer == [pc |-> "idle", request |-> <<>>, pending |-> <<>>]

\* part_001:149-193  how one call of the check (ListKeys, ListAliases) can
\* end: client.Do fails, io.ReadAll fails, the status is not 200, the body
\* of a 200 does not parse, or all is well.
CallOutcomes == {"send_fail", "read_fail", "bad_status", "unparseable", "ok"}

\* part_001:141-144  http.NewRequest can fail as well, before any call is
\* made; the second request (part_001:175-178) is built from the same
\* method and URL, so it fails only when the first already has.
KeysOutcomes == CallOutcomes \cup {"new_fail"}

\* every way the two calls of one check can end, and the two that the
\* relay's concurrent runs follow: a check that passes and one that fails
Replies == KeysOutcomes \X CallOutcomes
SomeReplies == {<<"ok", "ok">>, <<"send_fail", "ok">>}

\* No request is on its way: the Connector is at position pc and every
\* connection of the chain is yet to be made.
ChainIdle(pc) ==
    /\ cPc = pc
    /\ text = <<>>
    /\ lineNo = 0
    /\ cOpen = FALSE
    /\ cLog = <<>>
    /\ aborts = 0
    /\ result = NoResult
    /\ wireCI = <<>>
    /\ inner = NoInner
    /\ wireIO = <<>>
    /\ outer = NoConn
    /\ kms = NoKms
    /\ wireOI = <<>>
    /\ wireIC = <<>>
    /\ peer = NoPeer

Init ==
    /\ variant \in Variants
    /\ heldFor \in 0..MaxHeld
    /\ portEnv = <<>>
    /\ addrPort = 0
    /\ mainPc = "start"
    /\ exited = FALSE
    /\ exitSite = "none"
    /\ kmsCheck = "none"
    /\ kmsCalls = <<>>
    /\ kmsReply \in (IF variant = "part_001" THEN SomeReplies ELSE {<<>>})
    /\ socks = <<>>
    /\ fd = 0
    /\ i = 0
    /\ bindAttempts = 0
    /\ bindFailures = 0
    /\ backoffs = 0
    /\ acceptErrors = 0
    /\ connectionCount = 0
    /\ conns = [c \in ConnIds |-> NoConn]
    /\ ChainIdle("off")

\* ----------------------------------------------------------------- startup

\* ---- the listening address

\* The characters an override of the port is made of here: digits, a letter,
\* a minus sign and a blank.
EnvChars == {"0", "1", "9", "x", "-", " "}

Digits == {"0", "1", "9"}

DigitValue(ch) == CASE ch = "0" -> 0 [] ch = "1" -> 1 [] OTHER -> 9

\* s without its leading blanks (fmt: scanInt calls SkipSpace first)
RECURSIVE SkipSpace(_)
SkipSpace(s) ==
    IF s # <<>> /\ Head(s) = " " THEN SkipSpace(Tail(s)) ELSE s

\* the value of the run of digits s starts with, continuing from acc
RECURSIVE ScanNumber(_, _)
ScanNumber(s, acc) ==
    IF s # <<>> /\ Head(s) \in Digits
    THEN ScanNumber(Tail(s), 10 * acc + DigitValue(Head(s)))
    ELSE acc

\* part_001:60  fmt.Sscanf(port, "%d", &vsockPort): blanks are skipped, a
\* sign is accepted, at least one digit must follow, and what comes after
\* the digits is left unread.  n is the number of items scanned (err is nil
\* exactly when n = 1), v the value stored.
Sscanf_d(s) ==
    LET t == SkipSpace(s)
        neg == t # <<>> /\ Head(t) = "-"
        u == IF neg THEN Tail(t) ELSE t
    IN  IF u = <<>> \/ Head(u) \notin Digits
        THEN [n |-> 0, v |-> 0]
        ELSE [n |-> 1, v |-> IF neg THEN 0 - ScanNumber(u, 0) ELSE ScanNumber(u, 0)]

\* part_001:69  uint32(vsockPort): a negative value wraps around to
\* 2^32 + v, written here as the pair <<"2^32+", v>>
Uint32(v) == IF v >= 0 THEN v ELSE <<"2^32+", v>>

\* part_001:58-70  default 9000, VSOCK_PORT when it scans as a number.
\* cmd_main:37-40  Port: 8000, whatever the environment.
ListenPort(v, env) ==
    IF v = "part_001"
    THEN IF env = <<>> THEN 9000
         ELSE LET r == Sscanf_d(env)
              IN  IF r.n # 1 THEN 9000 ELSE Uint32(r.v)
    ELSE 8000

\* part_001:138-208  checkKMSConfiguration returns an error when a call
\* cannot be made or its body cannot be read; a bad status and an
\* unparseable body are logged as warnings and the result is nil.  The
\* aliases call is made only when the keys call returned no error.
checkKMSConfiguration_strict(keys, aliases) ==
    IF keys # "ok" \/ aliases # "ok" THEN "err" ELSE "ok"

checkKMSConfiguration(keys, aliases) ==
    IF keys \in {"new_fail", "send_fail", "read_fail"} THEN "err"
    ELSE IF aliases \in {"send_fail", "read_fail"} THEN "err"
    ELSE "ok"

\* part_001:149, 182  the client.Do calls one run of the check makes, in
\* order: every error return before part_001:182 leaves the second out
CallsMade(keys, aliases) ==
    IF keys = "new_fail" THEN <<>>
    ELSE IF keys \in {"send_fail", "read_fail"} THEN <<"ListKeys">>
    ELSE <<"ListKeys", "ListAliases">>

\* part_001:50-56  checkKMSConfiguration; its error is only logged
\* (log.Printf, Warning).  cmd_main has no such check.
CheckKMS ==
    /\ ~exited /\ mainPc = "start"
    /\ IF variant = "part_001"
       THEN LET r == checkKMSConfiguration(kmsReply[1], kmsReply[2])
            IN  /\ kmsCheck' = r
                /\ kmsCalls' = CallsMade(kmsReply[1], kmsReply[2])
                /\ IF r = "err"
                   THEN LogError("kmscheck")
                   ELSE UNCHANGED <<exited, exitSite>>
       ELSE /\ kmsCheck' = "none"
            /\ kmsCalls' = <<>>
            /\ UNCHANGED <<exited, exitSite>>
    /\ mainPc' = "port"
    /\ UNCHANGED <<chainVars, portEnv, addrPort, variant, heldFor, kmsReply, startupVars,
                   acceptErrors, connectionCount, conns>>

\* part_001:58-70, cmd_main:36-40  addr := &unix.SockaddrVM{CID: 2, Port: ...}
ResolvePort ==
    /\ ~exited /\ mainPc = "port"
    /\ addrPort' = ListenPort(variant, portEnv)
    /\ mainPc' = "socket"
    /\ UNCHANGED <<chainVars, portEnv, variant, heldFor, exited, exitSite,
                   kmsCheck, kmsCalls, kmsReply, startupVars, acceptErrors, connectionCount, conns>>

\* part_001:75-80, cmd_main:45-50  fd, err := unix.Socket(...)
SocketOk ==
    /\ ~exited /\ mainPc = "socket"
    /\ socks' = Append(socks, NewSock)
    /\ fd' = Len(socks) + 1
    /\ mainPc' = "bind"
    /\ UNCHANGED <<chainVars, portEnv, addrPort, variant, heldFor, exited, exitSite, kmsCheck, kmsCalls, kmsReply, i,
                   bindAttempts, bindFailures, backoffs,
                   acceptErrors, connectionCount, conns>>

SocketFail ==
    /\ ~exited /\ mainPc = "socket"
    /\ LogError("socket")
    /\ UNCHANGED <<chainVars, portEnv, addrPort, variant, heldFor, mainPc, kmsCheck, kmsCalls, kmsReply, startupVars,
                   acceptErrors, connectionCount, conns>>

\* part_001:85-86,102  unix.Bind(fd, addr) succeeds: break
\* cmd_main:54
BindOk ==
    /\ ~exited /\ mainPc = "bind"
    /\ variant = "part_001" => i < maxRetries
    /\ BindSucceeds
    /\ bindAttempts' = bindAttempts + 1
    /\ socks' = [socks EXCEPT ![fd].bound = TRUE, ![fd].binds = @ + 1]
    /\ mainPc' = "listen"
    /\ UNCHANGED <<chainVars, portEnv, addrPort, variant, heldFor, exited, exitSite, kmsCheck, kmsCalls, kmsReply, fd, i,
                   bindFailures, backoffs, acceptErrors, connectionCount, conns>>

\* part_001:86-100  unix.Bind fails: close the socket and retry, or Fatalf
\* cmd_main:54-56   unix.Bind fails: Fatalf
BindFail ==
    /\ ~exited /\ mainPc = "bind"
    /\ variant = "part_001" => i < maxRetries
    /\ ~BindSucceeds
    /\ bindAttempts' = bindAttempts + 1
    /\ bindFailures' = bindFailures + 1
    /\ IF CanRetry(variant, i)
       THEN /\ socks' = [socks EXCEPT ![fd] = CloseSock([@ EXCEPT !.binds = @ + 1])]
            /\ mainPc' = "sleep"
            /\ UNCHANGED <<exited, exitSite>>
       ELSE /\ socks' = [socks EXCEPT ![fd].binds = @ + 1]
            /\ LogError("bind")
            /\ UNCHANGED mainPc
    /\ UNCHANGED <<chainVars, portEnv, addrPort, variant, heldFor, kmsCheck, kmsCalls, kmsReply, fd, i, backoffs,
                   acceptErrors, connectionCount, conns>>

\* part_001:90  time.Sleep(2 * time.Second)
Backoff ==
    /\ ~exited /\ mainPc = "sleep"
    /\ backoffs' = backoffs + 1
    /\ mainPc' = "resocket"
    /\ UNCHANGED <<chainVars, portEnv, addrPort, variant, heldFor, exited, exitSite, kmsCheck, kmsCalls, kmsReply, socks, fd, i,
                   bindAttempts, bindFailures, acceptErrors, connectionCount,
                   conns>>

\* part_001:93-97  fd, err = unix.Socket(...); continue (i++)
ResocketOk ==
    /\ ~exited /\ mainPc = "resocket"
    /\ socks' = Append(socks, NewSock)
    /\ fd' = RecreatedFd(fd, Len(socks) + 1)
    /\ i' = i + 1
    /\ mainPc' = "bind"
    /\ UNCHANGED <<chainVars, portEnv, addrPort, variant, heldFor, exited, exitSite, kmsCheck, kmsCalls, kmsReply,
                   bindAttempts, bindFailures, backoffs,
                   acceptErrors, connectionCount, conns>>

ResocketFail ==
    /\ ~exited /\ mainPc = "resocket"
    /\ LogError("resocket")
    /\ UNCHANGED <<chainVars, portEnv, addrPort, variant, heldFor, mainPc, kmsCheck, kmsCalls, kmsReply, startupVars,
                   acceptErrors, connectionCount, conns>>

\* part_001:108-110, cmd_main:61-63  unix.Listen(fd, 128)
ListenOk ==
    /\ ~exited /\ mainPc = "listen"
    /\ socks' = [socks EXCEPT ![fd].listening = TRUE]
    /\ mainPc' = "accept"
    /\ UNCHANGED <<chainVars, portEnv, addrPort, variant, heldFor, exited, exitSite, kmsCheck, kmsCalls, kmsReply, fd, i,
                   bindAttempts, bindFailures, backoffs,
                   acceptErrors, connectionCount, conns>>

ListenFail ==
    /\ ~exited /\ mainPc = "listen"
    /\ LogError("listen")
    /\ UNCHANGED <<chainVars, portEnv, addrPort, variant, heldFor, mainPc, kmsCheck, kmsCalls, kmsReply, startupVars,
                   acceptErrors, connectionCount, conns>>

Startup ==
    \/ CheckKMS
    \/ ResolvePort
    \/ SocketOk \/ SocketFail
    \/ BindOk \/ BindFail
    \/ Backoff
    \/ ResocketOk \/ ResocketFail
    \/ ListenOk \/ ListenFail

\* ------------------------------------------------------------- accept loop

\* part_001:116-119, cmd_main:69-72  the loop calls unix.Accept whenever main
\* is at the top of the loop; the handler runs in its own goroutine
\* (part_001:134, cmd_main:87) and main never waits for it.
CanAccept_sync ==
    mainPc = "accept" /\ \A c \in ConnIds : conns[c].pc \in {"none", "done"}

CanAccept ==
    mainPc = "accept"

\* part_001:119-127, cmd_main:72-80  one pass of the loop body over the
\* counter: a failed Accept continues before the increment, a successful one
\* runs connectionCount++; the handler then receives the counter's new value
\* by value (part_001:134, cmd_main:87)
Counted_failures(count, ok) ==
    count + 1

Counted(count, ok) ==
    IF ok THEN count + 1 ELSE count

\* part_001:119-134, cmd_main:72-87  Accept succeeds: connectionCount++ and
\* go handleVsockConnection(nfd, sa, connectionCount, target)
AcceptOk(peerStalls) ==
    /\ ~exited /\ CanAccept
    /\ socks[fd].open /\ socks[fd].listening
    /\ connectionCount < MaxConns
    /\ connectionCount' = Counted(connectionCount, TRUE)
    /\ conns' = [conns EXCEPT ![connectionCount + 1] =
                    [NoConn EXCEPT !.pc = "read", !.open = TRUE,
                                   !.connID = connectionCount',
                                   !.stalled = peerStalls,
                                   !.errsBefore = acceptErrors]]
    /\ UNCHANGED <<chainVars, portEnv, addrPort, variant, heldFor, mainPc, exited, exitSite, kmsCheck, kmsCalls, kmsReply,
                   startupVars, acceptErrors>>

\* part_001:120-123, cmd_main:73-76  Accept fails: log and continue
AcceptFail ==
    /\ ~exited /\ CanAccept
    /\ acceptErrors < MaxAcceptErrors
    /\ acceptErrors' = acceptErrors + 1
    /\ connectionCount' = Counted(connectionCount, FALSE)
    /\ LogError("accept")
    /\ UNCHANGED <<chainVars, portEnv, addrPort, variant, heldFor, mainPc, kmsCheck, kmsCalls, kmsReply, startupVars,
                   conns>>

AcceptLoop == (\E s \in BOOLEAN : AcceptOk(s)) \/ AcceptFail

\* ------------------------------------------------- handleVsockConnection

\* part_001:223, cmd_main:104  unix.Read blocks on the handler's own
\* connection until its peer has sent (or the read fails): a peer that never
\* sends keeps only this handler in Read.
ReadReady_serial(c) ==
    ~conns[c].stalled /\ \A d \in ConnIds : d < c => conns[d].pc # "read"

ReadReady(c) == ~conns[c].stalled

\* One more event in the connection's log: a call the handler made and its
\* outcome.
Event(conn, e) == [conn EXCEPT !.ev = Append(@, e)]

\* part_001:213-217, cmd_main:94-98  defer func() { unix.Close(fd) ... }()
DeferredClose_none(conn) == conn

DeferredClose(conn) == [conn EXCEPT !.open = FALSE, !.ev = Append(@, "close")]

\* return: the deferred function runs and the goroutine ends.
Return(conn) == [DeferredClose(conn) EXCEPT !.pc = "done"]

\* The handler's control flow: where it goes after the call made at pc,
\* given whether that call succeeded.
\*   part_001:223-227 / cmd_main:104-108   read:    error -> return
\*   part_001:239-243 / cmd_main:117-121   encrypt: error -> return
\*   part_001:250-262 / cmd_main:128-138   write:   return either way
NextPc_ignoreErr(pc, ok) ==
    CASE pc = "read" -> "encrypt"
      [] pc = "encrypt" -> "write"
      [] OTHER -> "return"

NextPc_keepAlive(pc, ok) ==
    CASE pc = "read" -> IF ok THEN "encrypt" ELSE "return"
      [] pc = "encrypt" -> IF ok THEN "write" ELSE "return"
      [] OTHER -> IF ok THEN "read" ELSE "return"

NextPc(pc, ok) ==
    CASE pc = "read" -> IF ok THEN "encrypt" ELSE "return"
      [] pc = "encrypt" -> IF ok THEN "write" ELSE "return"
      [] OTHER -> "return"

\* The handler moves on after a call at conn.pc.
Advance(conn, ok) ==
    LET npc == NextPc(conn.pc, ok)
    IN  IF npc = "return" THEN Return(conn) ELSE [conn EXCEPT !.pc = npc]

\* The stub of the KMS backend: the CiphertextBlob it returns for a plaintext.
Ciphertext(p) == <<"ct", p>>

\* part_001:230,239, cmd_main:111,117  plaintext is a local variable of the
\* handler: the argument of encryptWithKMS is what this handler read.
Plaintext_shared(c) ==
    LET readers == {d \in ConnIds : conns[d].plaintext # <<>>}
    IN  conns[CHOOSE d \in readers : \A x \in readers : x <= d].plaintext

Plaintext(c) == conns[c].plaintext

\* part_001:250, cmd_main:128  []byte(encrypted): the bytes handed to Write
ReplyBytes_newline(conn) == Append(conn.encrypted, 10)

ReplyBytes(conn) == conn.encrypted

\* An error at a handler's error site: log.Printf and return.
HandlerError(c, site, e) ==
    /\ LogError(site)
    /\ conns' = [conns EXCEPT ![c] =
                    IF IsFatal(site) THEN Event(@, e) ELSE Advance(Event(@, e), FALSE)]

\* part_001:222-230, cmd_main:103-111  n, err := unix.Read(fd, buffer)
ReadOk(c) ==
    /\ ~exited /\ conns[c].pc = "read" /\ ReadReady(c)
    /\ conns' = [conns EXCEPT ![c] =
                    Advance(Event([@ EXCEPT !.plaintext = Request(c)], "read_ok"), TRUE)]
    /\ UNCHANGED <<chainVars, portEnv, addrPort, variant, heldFor, mainPc, exited, exitSite, kmsCheck, kmsCalls, kmsReply,
                   startupVars, acceptErrors, connectionCount>>

ReadErr(c) ==
    /\ ~exited /\ conns[c].pc = "read" /\ ReadReady(c)
    /\ HandlerError(c, "read", "read_err")
    /\ UNCHANGED <<chainVars, portEnv, addrPort, variant, heldFor, mainPc, kmsCheck, kmsCalls, kmsReply, startupVars,
                   acceptErrors, connectionCount>>

\* part_001:239-245, cmd_main:117-123  encrypted, err := encryptWithKMS(...)
EncryptOk(c) ==
    /\ ~exited /\ conns[c].pc = "encrypt"
    /\ conns' = [conns EXCEPT ![c] =
                    Advance(Event([conns[c] EXCEPT
                                      !.encrypted = Ciphertext(Plaintext(c))],
                                  "enc_ok"), TRUE)]
    /\ UNCHANGED <<chainVars, portEnv, addrPort, variant, heldFor, mainPc, exited, exitSite, kmsCheck, kmsCalls, kmsReply,
                   startupVars, acceptErrors, connectionCount>>

EncryptErr(c) ==
    /\ ~exited /\ conns[c].pc = "encrypt"
    /\ HandlerError(c, "encrypt", "enc_err")
    /\ UNCHANGED <<chainVars, portEnv, addrPort, variant, heldFor, mainPc, kmsCheck, kmsCalls, kmsReply, startupVars,
                   acceptErrors, connectionCount>>

\* part_001:250-262, cmd_main:128-138  _, err = unix.Write(fd, []byte(encrypted))
WriteOk(c) ==
    /\ ~exited /\ conns[c].pc = "write"
    /\ conns' = [conns EXCEPT ![c] =
                    Advance(Event([@ EXCEPT !.written = ReplyBytes(conns[c])],
                                  "write_ok"), TRUE)]
    /\ UNCHANGED <<chainVars, portEnv, addrPort, variant, heldFor, mainPc, exited, exitSite, kmsCheck, kmsCalls, kmsReply,
                   startupVars, acceptErrors, connectionCount>>

WriteErr(c) ==
    /\ ~exited /\ conns[c].pc = "write"
    /\ HandlerError(c, "write", "write_err")
    /\ UNCHANGED <<chainVars, portEnv, addrPort, variant, heldFor, mainPc, kmsCheck, kmsCalls, kmsReply, startupVars,
                   acceptErrors, connectionCount>>

HandlerFails(c) == ReadErr(c) \/ EncryptErr(c) \/ WriteErr(c)

handleVsockConnection(c) ==
    \/ ReadOk(c)
    \/ EncryptOk(c)
    \/ WriteOk(c)
    \/ HandlerFails(c)

Next ==
    \/ Startup
    \/ AcceptLoop
    \/ \E c \in ConnIds : handleVsockConnection(c)

Spec == Init /\ [][Next]_vars

\* The Go scheduler runs every runnable goroutine: main goes through its
\* startup steps (each system call returns, the sleep ends), and a handler
\* whose call can return goes on.  Accept waits for the environment and is
\* under no fairness.
FairSpec ==
    /\ Spec
    /\ WF_vars(Startup)
    /\ \A c \in ConnIds : WF_vars(handleVsockConnection(c))

\* ------------------------------------------------------------ encryptWithKMS

\* net/http: http.StatusOK
StatusOK == 200

\* part_001:270-273  KeyId: "alias/dev-key", Plaintext: plaintextBase64
\* cmd_main:142-145  KeyId: "alias/dev-key", Plaintext: plaintext
KMSEncryptRequest(v, plaintext) ==
    [KeyId |-> "alias/dev-key",
     Plaintext |-> IF v = "part_001" THEN Base64(plaintext) ELSE plaintext]

\* A response of the backend as the HTTP client sees it:
\*   sent      client.Do returned no error (the call went out and an answer
\*             came back within the timeout)
\*   readable  io.ReadAll(resp.Body) returned no error
\*   status    resp.StatusCode
\*   body      the body: json is "object" for a JSON object that
\*             json.Unmarshal accepts into KMSEncryptResponse, "malformed"
\*             for text that is not JSON, "mistyped" for JSON with
\*             a field of the wrong type (json.Unmarshal fills the fields
\*             it can and returns an error); blob is the CiphertextBlob
\*             string in the body (empty when there is none)
Response(sent, readable, status, json, blob) ==
    [sent |-> sent, readable |-> readable, status |-> status,
     body |-> [json |-> json, blob |-> blob]]

\* part_001:294-321, cmd_main:164-186  what encryptWithKMS returns for a
\* response: (ciphertext, error)
encryptWithKMS_2xx(v, plaintext, resp) ==
    IF ~resp.sent THEN [ct |-> <<>>, err |-> <<"send">>]
    ELSE IF ~resp.readable THEN [ct |-> <<>>, err |-> <<"readbody">>]
    ELSE IF resp.status < 200 \/ resp.status > 299
         THEN [ct |-> <<>>, err |-> <<"status", resp.status, resp.body>>]
    ELSE IF resp.body.json # "object" THEN [ct |-> <<>>, err |-> <<"parse">>]
    ELSE [ct |-> resp.body.blob, err |-> <<>>]

encryptWithKMS_lenient(v, plaintext, resp) ==
    IF ~resp.sent THEN [ct |-> <<>>, err |-> <<"send">>]
    ELSE IF ~resp.readable THEN [ct |-> <<>>, err |-> <<"readbody">>]
    ELSE IF resp.status # StatusOK
         THEN [ct |-> <<>>, err |-> <<"status", resp.status, resp.body>>]
    ELSE IF resp.body.json # "object" THEN [ct |-> resp.body.blob, err |-> <<"parse">>]
    ELSE [ct |-> resp.body.blob, err |-> <<>>]

encryptWithKMS(v, plaintext, resp) ==
    IF ~resp.sent THEN [ct |-> <<>>, err |-> <<"send">>]
    ELSE IF ~resp.readable THEN [ct |-> <<>>, err |-> <<"readbody">>]
    ELSE IF resp.status # StatusOK
         THEN [ct |-> <<>>, err |-> <<"status", resp.status, resp.body>>]
    ELSE IF resp.body.json # "object" THEN [ct |-> <<>>, err |-> <<"parse">>]
    ELSE [ct |-> resp.body.blob, err |-> <<>>]

\* --------------------------------------------------------------- the chain
\* Connector -> Inner Relay -> Outer Relay -> backend and back, one request
\* at a time (the Connector is sequential).

\* "exit\n"
ExitLine == <<101, 120, 105, 116, 10>>
\* "hello\n"
HelloLine == <<104, 101, 108, 108, 111, 10>>
\* "CIPHER:"
CipherTag == <<67, 73, 80, 72, 69, 82, 58>>

\* What the user may type (or feed) at the prompt: the sentinel, its near
\* misses "exit" (end of input, no newline) and " exit\n", a short line, end
\* of input (ReadString returns "" and its error is dropped), and lines
\* around the limits of the 4096-byte buffers.
Lines ==
    { ExitLine,
      <<101, 120, 105, 116>>,
      <<32, 101, 120, 105, 116, 10>>,
      HelloLine,
      <<>>,
      Append(Bytes(3072, 97), 10),
      Append(Bytes(3073, 97), 10),
      Append(Bytes(BufSize - 1, 97), 10),
      Append(Bytes(BufSize, 97), 10) }

\* HTTP statuses the backend may answer with
Statuses == {200, 201, 204, 400, 500}

\* The answers the backend may give to an encrypt call for plaintext p: the
\* stubs of the tests (CiphertextBlob base64(p) or base64("CIPHER:" p)), an
\* object without CiphertextBlob, and the failures.
Responses(p) ==
    {Response(TRUE, TRUE, st, "object", Base64(p)) : st \in Statuses}
    \cup {Response(TRUE, TRUE, StatusOK, "object", Base64(CipherTag \o p)),
          Response(TRUE, TRUE, StatusOK, "object", <<>>),
          Response(TRUE, TRUE, StatusOK, "malformed", <<>>),
          Response(TRUE, TRUE, StatusOK, "mistyped", <<>>),
          Response(TRUE, TRUE, StatusOK, "mistyped", Base64(p)),
          Response(TRUE, FALSE, StatusOK, "malformed", <<>>),
          Response(FALSE, FALSE, 0, "malformed", <<>>)}

\* cmd_main:210  if text == "exit\n" { break }
IsExit_never(t) == FALSE

IsExit(t) == t = ExitLine

\* cmd_main:245  unix.Write(fd, []byte(text)): the bytes the Connector sends
SentBytes_trimmed(t) == SubSeq(t, 1, Len(t) - 1)

SentBytes(t) == t

\* cmd_main:258-263  n, err := unix.Read(fd, reply); if err != nil { ... }
\* A peer that closed without sending makes Read return 0 and no error.
ReadReportsError(avail, failed) == failed

CEvent(e) == cLog' = cLog \o e

\* cmd_main:235,248,261,273  unix.Close(fd) on the way out of the loop body:
\* after a connect, write or read error and after the result is printed
CClose_leakOnError(path) ==
    IF path = "success"
    THEN [open |-> FALSE, ev |-> <<"close">>]
    ELSE [open |-> TRUE, ev |-> <<>>]

CClose(path) == [open |-> FALSE, ev |-> <<"close">>]

\* cmd_main:222,236,249,262  continue: where the loop goes after an error
CContinue_retry == "socket"

CContinue == "prompt"

upstreamVars == <<wireCI, inner, wireIO, outer, kms, wireOI, wireIC>>

\* cmd_main:207-213  prompt, read a line; "exit\n" ends the loop
Prompt(line) ==
    /\ cPc = "prompt"
    /\ lineNo < MaxLines
    /\ text' = line
    /\ lineNo' = lineNo + 1
    /\ cPc' = IF IsExit(line) THEN "done" ELSE "socket"
    /\ cLog' = <<>>
    /\ result' = NoResult
    /\ wireCI' = <<>> /\ inner' = NoInner /\ wireIO' = <<>> /\ outer' = NoConn
    /\ kms' = NoKms /\ wireOI' = <<>> /\ wireIC' = <<>>
    /\ peer' = NoPeer
    /\ UNCHANGED <<variant, relayVars, cOpen, aborts>>

\* cmd_main:219-224  fd, err := unix.Socket(...)
CSocketOk ==
    /\ cPc = "socket"
    /\ cOpen' = TRUE
    /\ CEvent(<<"socket_ok">>)
    /\ cPc' = "connect"
    /\ UNCHANGED <<variant, relayVars, peer, aborts, text, lineNo, result, upstreamVars>>

CSocketFail ==
    /\ cPc = "socket"
    /\ CEvent(<<"socket_err", "log_err">>)
    /\ cPc' = CContinue
    /\ aborts' = aborts + 1
    /\ UNCHANGED <<variant, relayVars, peer, text, lineNo, cOpen, result, upstreamVars>>

\* cmd_main:233-240  unix.Connect(fd, addr)
CConnectOk ==
    /\ cPc = "connect"
    /\ CEvent(<<"connect_ok">>)
    /\ cPc' = "send"
    /\ UNCHANGED <<variant, relayVars, peer, aborts, text, lineNo, cOpen, result, upstreamVars>>

CConnectFail ==
    /\ cPc = "connect"
    /\ CEvent(<<"connect_err", "log_err">> \o CClose("connect_err").ev)
    /\ cOpen' = CClose("connect_err").open
    /\ cPc' = CContinue
    /\ aborts' = aborts + 1
    /\ UNCHANGED <<variant, relayVars, peer, text, lineNo, result, upstreamVars>>

\* cmd_main:243  text[:len(text)-1] panics on the empty line: the process dies
CSendPanic ==
    /\ cPc = "send"
    /\ Len(text) = 0
    /\ CEvent(<<"panic">>)
    /\ cOpen' = FALSE
    /\ cPc' = "panic"
    /\ UNCHANGED <<variant, relayVars, peer, aborts, text, lineNo, result, upstreamVars>>

\* cmd_main:243-252  unix.Write(fd, []byte(text))
CSendOk ==
    /\ cPc = "send"
    /\ Len(text) > 0
    /\ wireCI' = SentBytes(text)
    /\ CEvent(<<"write_ok">>)
    /\ cPc' = "recv"
    /\ UNCHANGED <<variant, relayVars, peer, aborts, text, lineNo, cOpen, result,
                   inner, wireIO, outer, kms, wireOI, wireIC>>

CSendFail ==
    /\ cPc = "send"
    /\ Len(text) > 0
    /\ CEvent(<<"write_err", "log_err">> \o CClose("write_err").ev)
    /\ cOpen' = CClose("write_err").open
    /\ cPc' = CContinue
    /\ aborts' = aborts + 1
    /\ UNCHANGED <<variant, relayVars, peer, text, lineNo, result, upstreamVars>>

\* cmd_main:255-274  unix.Read(fd, reply) returns once the Inner Relay has
\* answered or closed; print the result; close.
\* failed: the read itself fails (the connection is reset).
CRecv(failed) ==
    /\ cPc = "recv"
    /\ failed \/ inner.pc = "done"
    /\ IF ReadReportsError(wireIC, failed)
       THEN /\ CEvent(<<"read_err", "log_err">> \o CClose("read_err").ev)
            /\ cOpen' = CClose("read_err").open
            /\ cPc' = CContinue
            /\ aborts' = aborts + 1
            /\ UNCHANGED result
       ELSE /\ CEvent(<<"read_ok", "print">> \o CClose("success").ev)
            /\ cOpen' = CClose("success").open
            /\ cPc' = "prompt"
            /\ result' = [printed |-> TRUE, value |-> ReadInto(wireIC, BufSize)]
            /\ UNCHANGED aborts
    /\ UNCHANGED <<variant, relayVars, peer, text, lineNo, upstreamVars>>

Connector ==
    \/ \E line \in Lines : Prompt(line)
    \/ CSocketOk \/ CSocketFail
    \/ CConnectOk \/ CConnectFail
    \/ CSendPanic \/ CSendOk \/ CSendFail
    \/ \E failed \in BOOLEAN : CRecv(failed)

\* ---- Inner Relay (its source is not in src/: modelled from the spec, 4.1,
\* 4.2 and the end-to-end scenario of section 8)

\* step 2: decode the bytes as the request payload: the line without its
\* trailing newline ("hello\n" is forwarded as "hello")
InnerDecode(b) ==
    IF Len(b) > 0 /\ b[Len(b)] = 10 THEN SubSeq(b, 1, Len(b) - 1) ELSE b

\* steps 1-3: read once into the bounded buffer, decode, connect to the
\* Outer Relay and write the request once
InnerForward ==
    /\ cPc = "recv" /\ inner.pc = "idle"
    /\ LET req == InnerDecode(ReadInto(wireCI, BufSize))
       IN  /\ inner' = [inner EXCEPT !.pc = "forwarded", !.req = req]
           /\ wireIO' = req
    /\ outer' = [NoConn EXCEPT !.pc = "read", !.open = TRUE, !.connID = lineNo]
    /\ UNCHANGED <<variant, relayVars, peer, aborts, cPc, text, lineNo, cOpen, cLog, result,
                   wireCI, kms, wireOI, wireIC>>

\* any error on the way (read, connect, write) aborts the Exchange: no reply
\* is written and the connection is closed
InnerForwardFail ==
    /\ cPc = "recv" /\ inner.pc = "idle"
    /\ inner' = [inner EXCEPT !.pc = "done"]
    /\ UNCHANGED <<variant, relayVars, peer, aborts, cPc, text, lineNo, cOpen, cLog, result,
                   wireCI, wireIO, outer, kms, wireOI, wireIC>>

\* Forwarder: read one reply into the bounded buffer; a closed connection
\* with no payload is an error; step 4: write the reply once; step 5: close
InnerReply(failed) ==
    /\ cPc = "recv" /\ inner.pc = "forwarded"
    /\ failed \/ outer.pc = "done"
    /\ LET reply == ReadInto(wireOI, BufSize)
       IN  IF failed \/ reply = <<>>
           THEN /\ inner' = [inner EXCEPT !.pc = "done"]
                /\ UNCHANGED wireIC
           ELSE /\ inner' = [inner EXCEPT !.pc = "done", !.reply = reply]
                /\ wireIC' = reply
    /\ UNCHANGED <<variant, relayVars, peer, aborts, cPc, text, lineNo, cOpen, cLog, result,
                   wireCI, wireIO, outer, kms, wireOI>>

InnerRelay ==
    \/ InnerForward \/ InnerForwardFail
    \/ \E failed \in BOOLEAN : InnerReply(failed)

\* ---- Outer Relay: handleVsockConnection on the Inner Relay's connection

\* The handler runs for the Inner Relay's connection or for a client's.
Serving == cPc = "recv" \/ peer.pc = "sent"

\* part_001:223-227, cmd_main:104-108  n, err := unix.Read(fd, buffer);
\* if err != nil { return }: the number of bytes read is not tested
HandlerReadFails_onEmpty(n, failed) == failed \/ n = 0

HandlerReadFails(n, failed) == failed

\* The handler of copy v, one step at a time, as a function of the
\* handler's state and of what the step's call returns.
\* part_001:220-237, cmd_main:101-115  buffer := make([]byte, 4096);
\* n, err := unix.Read(fd, buffer); plaintext := string(buffer[:n])
OnRead_trimmed(v, conn, avail, failed) ==
    LET got == ReadInto(avail, BufSize)
        kept == IF v = "cmd_main" /\ got # <<>> /\ got[Len(got)] = 10
                THEN SubSeq(got, 1, Len(got) - 1) ELSE got
    IN  IF HandlerReadFails(Len(got), failed)
        THEN Advance(Event(conn, "read_err"), FALSE)
        ELSE Advance(Event([conn EXCEPT !.plaintext = kept], "read_ok"), TRUE)

OnRead(v, conn, avail, failed) ==
    LET got == ReadInto(avail, BufSize)
    IN  IF HandlerReadFails(Len(got), failed)
        THEN Advance(Event(conn, "read_err"), FALSE)
        ELSE Advance(Event([conn EXCEPT !.plaintext = got], "read_ok"), TRUE)

\* part_001:239-252, cmd_main:117-127  encrypted, err :=
\* encryptWithKMS(kmsTarget, plaintext)
OnEncrypt(v, conn, resp) ==
    LET r == encryptWithKMS(v, conn.plaintext, resp)
    IN  IF r.err # <<>>
        THEN Advance(Event([conn EXCEPT !.encrypted = r.ct], "enc_err"), FALSE)
        ELSE Advance(Event([conn EXCEPT !.encrypted = r.ct], "enc_ok"), TRUE)

\* part_001:254-262, cmd_main:129-138  unix.Write(fd, []byte(encrypted))
OnWrite(v, conn, failed) ==
    IF failed
    THEN Advance(Event(conn, "write_err"), FALSE)
    ELSE Advance(Event([conn EXCEPT !.written = ReplyBytes(conn)], "write_ok"),
                 TRUE)

\* part_001:222-230, cmd_main:103-111  one unix.Read into buffer; it returns
\* once bytes have arrived or the other side has finished sending
OuterRead(failed) ==
    /\ Serving /\ outer.pc = "read"
    /\ failed \/ wireIO # <<>> \/ peer.pending = <<>>
    /\ outer' = OnRead(variant, outer, wireIO, failed)
    /\ wireIO' = IF HandlerReadFails(Len(ReadInto(wireIO, BufSize)), failed)
                 THEN wireIO
                 ELSE SubSeq(wireIO, Len(ReadInto(wireIO, BufSize)) + 1,
                             Len(wireIO))
    /\ UNCHANGED <<variant, relayVars, peer, aborts, cPc, text, lineNo, cOpen, cLog, result,
                   wireCI, inner, kms, wireOI, wireIC>>

\* part_001:239-245, cmd_main:117-123  encrypted, err := encryptWithKMS(...)
OuterEncrypt ==
    /\ Serving /\ outer.pc = "encrypt"
    /\ \E resp \in Responses(outer.plaintext) :
         LET r == encryptWithKMS(variant, outer.plaintext, resp)
         IN  /\ kms' = [called |-> TRUE,
                        req |-> KMSEncryptRequest(variant, outer.plaintext),
                        resp |-> resp, err |-> r.err]
             /\ outer' = OnEncrypt(variant, outer, resp)
    /\ UNCHANGED <<variant, relayVars, peer, aborts, cPc, text, lineNo, cOpen, cLog, result,
                   wireCI, inner, wireIO, wireOI, wireIC>>

\* part_001:250-262, cmd_main:128-138
OuterWrite(failed) ==
    /\ Serving /\ outer.pc = "write"
    /\ outer' = OnWrite(variant, outer, failed)
    /\ wireOI' = IF failed THEN wireOI ELSE ReplyBytes(outer)
    /\ UNCHANGED <<variant, relayVars, peer, aborts, cPc, text, lineNo, cOpen, cLog, result,
                   wireCI, inner, wireIO, kms, wireIC>>

OuterRelay ==
    \/ \E failed \in BOOLEAN : OuterRead(failed)
    \/ OuterEncrypt
    \/ \E failed \in BOOLEAN : OuterWrite(failed)

\* ---- a client connected straight to the Outer Relay (as a test of the
\* handler does): its request may arrive in two segments

\* "hello"
Hello == <<104, 101, 108, 108, 111>>

\* The requests of such a client, as (first segment, rest): nothing at all
\* (connect and close), "hello" whole, "he" then "llo", and requests of
\* exactly the buffer size and one byte more.
PeerRequests ==
    { <<(<<>>), (<<>>)>>,
      <<Hello, (<<>>)>>,
      <<SubSeq(Hello, 1, 2), SubSeq(Hello, 3, 5)>>,
      <<Bytes(BufSize, 97), (<<>>)>>,
      <<Bytes(BufSize + 1, 97), (<<>>)>> }

\* The client connects, the accept loop starts a handler for it
\* (part_001:119-134), and the first segment arrives.
PeerConnect(first, rest) ==
    /\ cPc = "prompt" /\ lineNo = 0
    /\ peer.pc = "idle"
    /\ peer' = [pc |-> "sent", request |-> first \o rest, pending |-> rest]
    /\ wireIO' = first
    /\ outer' = [NoConn EXCEPT !.pc = "read", !.open = TRUE, !.connID = 1]
    /\ UNCHANGED <<variant, relayVars, cPc, text, lineNo, cOpen, cLog, aborts, result,
                   wireCI, inner, kms, wireOI, wireIC>>

\* The rest of the request arrives in the handler's socket buffer.
SegmentArrives ==
    /\ peer.pc = "sent" /\ peer.pending # <<>>
    /\ wireIO' = wireIO \o peer.pending
    /\ peer' = [peer EXCEPT !.pending = <<>>]
    /\ UNCHANGED <<variant, relayVars, cPc, text, lineNo, cOpen, cLog, aborts, result,
                   wireCI, inner, outer, kms, wireOI, wireIC>>

DirectPeer ==
    \/ \E r \in PeerRequests : PeerConnect(r[1], r[2])
    \/ SegmentArrives

\* The relays are up (the Outer Relay has gone through its startup with the
\* address free and waits in Accept) and the Connector starts.
ChainInit ==
    /\ variant \in Variants
    /\ heldFor = 0
    /\ portEnv = <<>>
    /\ addrPort = ListenPort(variant, portEnv)
    /\ mainPc = "accept"
    /\ exited = FALSE
    /\ exitSite = "none"
    /\ kmsCheck = IF variant = "part_001" THEN "ok" ELSE "none"
    /\ kmsCalls = IF variant = "part_001" THEN <<"ListKeys", "ListAliases">> ELSE <<>>
    /\ kmsReply = IF variant = "part_001" THEN <<"ok", "ok">> ELSE <<>>
    /\ socks = <<[NewSock EXCEPT !.bound = TRUE, !.listening = TRUE, !.binds = 1]>>
    /\ fd = 1
    /\ i = 0
    /\ bindAttempts = 1
    /\ bindFailures = 0
    /\ backoffs = 0
    /\ acceptErrors = 0
    /\ connectionCount = 0
    /\ conns = [c \in ConnIds |-> NoConn]
    /\ ChainIdle("prompt")

ChainNext == Connector \/ InnerRelay \/ OuterRelay \/ DirectPeer

ChainSpec == ChainInit /\ [][ChainNext]_vars

\* ------------------------------------------- the two copies of the handler

\* Both copies of the handler serve a connection that carries the same
\* bytes, and every call returns the same to both: conns[Copy(v)] is the
\* handler of copy v, each in its own process (variant = "both").
Copy(v) == IF v = "part_001" THEN 1 ELSE 2

\* what the peer may have sent: the lines of the Connector and requests
\* without a newline, up to one byte more than the buffer holds
PairInputs ==
    Lines \cup {Hello, Bytes(BufSize, 97), Bytes(BufSize + 1, 97)}

PairInit ==
    /\ variant = "both"
    /\ heldFor = 0
    /\ portEnv = <<>>
    /\ addrPort = 0
    /\ mainPc = "accept"
    /\ exited = FALSE
    /\ exitSite = "none"
    /\ kmsCheck = "none"
    /\ kmsCalls = <<>>
    /\ kmsReply = <<>>
    /\ socks = <<[NewSock EXCEPT !.bound = TRUE, !.listening = TRUE, !.binds = 1]>>
    /\ fd = 1
    /\ i = 0
    /\ bindAttempts = 1
    /\ bindFailures = 0
    /\ backoffs = 0
    /\ acceptErrors = 0
    /\ connectionCount = 1
    /\ conns = [c \in ConnIds |->
                  IF \E v \in Variants : c = Copy(v)
                  THEN [NoConn EXCEPT !.pc = "read", !.open = TRUE, !.connID = 1]
                  ELSE NoConn]
    /\ cPc = "off"
    /\ text = <<>>
    /\ lineNo = 0
    /\ cOpen = FALSE
    /\ cLog = <<>>
    /\ aborts = 0
    /\ result = NoResult
    /\ wireCI = <<>>
    /\ inner = NoInner
    /\ wireIO \in PairInputs
    /\ outer = NoConn
    /\ kms = NoKms
    /\ wireOI = <<>>
    /\ wireIC = <<>>
    /\ peer = NoPeer

\* some copy is at position pc
AtPc(pc) ==
    variant = "both" /\ \E v \in Variants : conns[Copy(v)].pc = pc

\* the copies that are at position pc take the step Step of their own code
Stepped(pc, Step(_, _)) ==
    [c \in ConnIds |->
        IF c = Copy("part_001") /\ conns[c].pc = pc
        THEN Step("part_001", conns[c])
        ELSE IF c = Copy("cmd_main") /\ conns[c].pc = pc
        THEN Step("cmd_main", conns[c])
        ELSE conns[c]]

\* part_001:222-237, cmd_main:103-115
PairRead(failed) ==
    /\ AtPc("read")
    /\ LET Step(v, conn) == OnRead(v, conn, wireIO, failed)
       IN  conns' = Stepped("read", Step)
    /\ UNCHANGED <<variant, chainVars, heldFor, portEnv, addrPort, mainPc, exited,
                   exitSite, kmsCheck, kmsCalls, kmsReply, startupVars, acceptErrors,
                   connectionCount>>

\* part_001:239-252, cmd_main:117-127  the backend answers both alike
PairEncrypt ==
    /\ AtPc("encrypt")
    /\ \E resp \in Responses(ReadInto(wireIO, BufSize)) :
         LET Step(v, conn) == OnEncrypt(v, conn, resp)
         IN  conns' = Stepped("encrypt", Step)
    /\ UNCHANGED <<variant, chainVars, heldFor, portEnv, addrPort, mainPc, exited,
                   exitSite, kmsCheck, kmsCalls, kmsReply, startupVars, acceptErrors,
                   connectionCount>>

\* part_001:254-262, cmd_main:129-138
PairWrite(failed) ==
    /\ AtPc("write")
    /\ LET Step(v, conn) == OnWrite(v, conn, failed)
       IN  conns' = Stepped("write", Step)
    /\ UNCHANGED <<variant, chainVars, heldFor, portEnv, addrPort, mainPc, exited,
                   exitSite, kmsCheck, kmsCalls, kmsReply, startupVars, acceptErrors,
                   connectionCount>>

PairNext ==
    \/ \E failed \in BOOLEAN : PairRead(failed)
    \/ PairEncrypt
    \/ \E failed \in BOOLEAN : PairWrite(failed)

PairSpec == PairInit /\ [][PairNext]_vars

\* ------------------------------------------------- startup configuration

\* every string of at most n characters
RECURSIVE Strings(_)
Strings(n) ==
    IF n = 0 THEN {<<>>}
    ELSE LET shorter == Strings(n - 1)
         IN  shorter \cup {Append(t, ch) : t \in shorter, ch \in EnvChars}

\* "9001"
Port9001 == <<"9", "0", "0", "1">>

\* What VSOCK_PORT may hold when the Outer Relay starts: nothing, every
\* short string, a port number and a port number followed by a letter.
EnvValues == Strings(MaxEnvLen) \cup {Port9001, Append(Port9001, "x")}

\* The Outer Relay starts with some value of VSOCK_PORT in its environment
\* and the address free or held during the first bind attempt.
ConfigInit ==
    /\ variant \in Variants
    /\ heldFor \in {0, 1}
    /\ portEnv \in EnvValues
    /\ addrPort = 0
    /\ mainPc = "start"
    /\ exited = FALSE
    /\ exitSite = "none"
    /\ kmsCheck = "none"
    /\ kmsCalls = <<>>
    /\ kmsReply \in (IF variant = "part_001" THEN SomeReplies ELSE {<<>>})
    /\ socks = <<>>
    /\ fd = 0
    /\ i = 0
    /\ bindAttempts = 0
    /\ bindFailures = 0
    /\ backoffs = 0
    /\ acceptErrors = 0
    /\ connectionCount = 0
    /\ conns = [c \in ConnIds |-> NoConn]
    /\ ChainIdle("off")

ConfigNext == Startup

ConfigSpec == ConfigInit /\ [][ConfigNext]_vars

\* The Outer Relay starts against a backend that answers the two calls of
\* the startup check in any of the ways they can end.
KmsInit ==
    /\ variant \in Variants
    /\ heldFor \in {0, 1}
    /\ portEnv = <<>>
    /\ addrPort = 0
    /\ mainPc = "start"
    /\ exited = FALSE
    /\ exitSite = "none"
    /\ kmsCheck = "none"
    /\ kmsCalls = <<>>
    /\ kmsReply \in (IF variant = "part_001" THEN Replies ELSE {<<>>})
    /\ socks = <<>>
    /\ fd = 0
    /\ i = 0
    /\ bindAttempts = 0
    /\ bindFailures = 0
    /\ backoffs = 0
    /\ acceptErrors = 0
    /\ connectionCount = 0
    /\ conns = [c \in ConnIds |-> NoConn]
    /\ ChainIdle("off")

KmsNext == Startup

KmsSpec == KmsInit /\ [][KmsNext]_vars

\* ------------------------------------------------------------ the claims

InFlight(c) == conns[c].pc \in {"read", "encrypt", "write"}
Done(c) == conns[c].pc = "done"
Blocked(c) == conns[c].pc = "read" /\ conns[c].stalled

\* how often event e occurs in a connection's log
Count(ev, e) == Cardinality({k \in DOMAIN ev : ev[k] = e})
Has(ev, e) == \E k \in DOMAIN ev : ev[k] = e

\* the step of the Exchange an event belongs to
Rank(e) ==
    CASE e \in {"read_ok", "read_err"} -> 1
      [] e \in {"enc_ok", "enc_err"} -> 2
      [] e \in {"write_ok", "write_err"} -> 3
      [] OTHER -> 4

AcceptAny == \E s \in BOOLEAN : AcceptOk(s)

\* C1: an accept error never terminates the Outer Relay: once accepts have
\* failed the process is still running, main is still in its accept loop on
\* the open listening socket and a further accept can succeed; and a
\* connection accepted after a failed accept, whose peer sends, has its
\* Exchange run to the end (handler returned, connection closed).
C1_AcceptErrorNotFatal ==
    /\ [](acceptErrors > 0 =>
            /\ ~exited
            /\ mainPc = "accept"
            /\ socks[fd].open /\ socks[fd].listening
            /\ connectionCount < MaxConns => ENABLED AcceptAny)
    /\ \A c \in ConnIds :
         (conns[c].pc = "read" /\ conns[c].errsBefore > 0 /\ ~conns[c].stalled)
            ~> (Done(c) /\ ~conns[c].open /\ Len(conns[c].ev) >= 2)

C1_Witness ==
    \E c \in ConnIds :
        /\ conns[c].errsBefore > 0
        /\ conns[c].ev = <<"read_ok", "enc_ok", "write_ok", "close">>

\* C2: every accepted connection is closed exactly once by its handler on
\* every exit path (a returned handler has closed it once, no handler closes
\* it twice, it is open as long as the handler runs), and no read or write
\* on it comes after the close.
C2_ClosedExactlyOnce ==
    \A c \in ConnIds :
        LET ev == conns[c].ev IN
        /\ Count(ev, "close") <= 1
        /\ Done(c) => Count(ev, "close") = 1 /\ ~conns[c].open
        /\ InFlight(c) => conns[c].open /\ Count(ev, "close") = 0
        /\ conns[c].open = (conns[c].pc # "none" /\ ~Has(ev, "close"))
        /\ \A k \in DOMAIN ev : ev[k] = "close" => k = Len(ev)

C2_Witness ==
    \E a, b \in ConnIds :
        /\ conns[a].ev = <<"read_err", "close">>
        /\ conns[b].ev = <<"read_ok", "enc_ok", "write_err", "close">>

\* C3: a reply is written only when both the read and the backend call
\* succeeded: a connection whose read or encrypt failed sees no write at all
\* before it is closed.
C3_NoReplyOnError ==
    \A c \in ConnIds :
        LET ev == conns[c].ev IN
        /\ (Has(ev, "read_err") \/ Has(ev, "enc_err")) =>
               /\ ~Has(ev, "write_ok") /\ ~Has(ev, "write_err")
               /\ conns[c].pc \notin {"encrypt", "write"} \/ exited
        /\ (Has(ev, "write_ok") \/ Has(ev, "write_err")) =>
               Has(ev, "read_ok") /\ Has(ev, "enc_ok")

C3_Witness ==
    \E a, b \in ConnIds :
        /\ Done(a) /\ Has(conns[a].ev, "read_err") /\ ~conns[a].open
        /\ Done(b) /\ Has(conns[b].ev, "enc_err") /\ ~conns[b].open

\* C4: a connection carries at most one Exchange: its handler makes at most
\* one read, one backend call and one write, in the order read, backend
\* call, write, close, and never reads again after writing.
C4_OneExchange ==
    \A c \in ConnIds :
        LET ev == conns[c].ev IN
        /\ \A j, k \in DOMAIN ev : j < k => Rank(ev[j]) < Rank(ev[k])
        /\ Len(ev) <= 4

C4_Witness ==
    \E a, b \in ConnIds :
        /\ a # b
        /\ conns[a].ev = <<"read_ok", "enc_ok", "write_ok", "close">>
        /\ conns[b].ev = <<"read_ok", "enc_ok", "write_ok", "close">>

\* C5: in every Outer Relay startup path a bind failure ends the process only
\* after 5 bind attempts have failed, and never more than 5 bind attempts
\* are made.
C5_BindFatalOnlyAfterFive ==
    /\ exitSite = "bind" => bindFailures = maxRetries
    /\ bindAttempts <= maxRetries

\* C6: (part_001) when the address is held during the first k < 5 bind
\* attempts and free afterwards, startup reaches the accept loop on a socket
\* that is open, bound and listening, after exactly k failed binds, unless a
\* socket creation or the listen call failed.
C6_StartupSucceedsWhenAddressFrees ==
    (variant = "part_001" /\ heldFor < maxRetries)
        ~> \/ exitSite \in {"socket", "resocket", "listen"}
           \/ /\ mainPc = "accept" /\ ~exited
              /\ socks[fd].open /\ socks[fd].bound /\ socks[fd].listening
              /\ bindFailures = heldFor

C6_Witness ==
    /\ variant = "part_001" /\ heldFor = maxRetries - 1
    /\ mainPc = "accept" /\ bindFailures = maxRetries - 1
    /\ socks[fd].bound /\ socks[fd].listening

\* C7: every bind retry closes the socket whose bind failed and creates a new
\* one before the next attempt: no socket sees two bind attempts, the socket
\* about to be bound is a fresh open one, a socket whose bind failed and was
\* retried is closed, and at most one listening-side socket is open at any
\* point of startup.
C7_FreshSocketPerBind ==
    /\ \A k \in DOMAIN socks : socks[k].binds <= 1
    /\ Cardinality({k \in DOMAIN socks : socks[k].open}) <= 1
    /\ mainPc = "bind" /\ ~exited => socks[fd].open /\ socks[fd].binds = 0
    /\ \A k \in DOMAIN socks :
         (socks[k].binds = 1 /\ ~socks[k].bound /\ ~exited) => ~socks[k].open
    /\ mainPc \in {"sleep", "resocket"} =>
         \A k \in DOMAIN socks : ~socks[k].open

C7_Witness ==
    /\ Len(socks) >= 3
    /\ mainPc = "bind"
    /\ ~socks[1].open /\ ~socks[2].open /\ socks[3].open
    /\ fd = 3

\* C8: main starts the handler as an independent task and resumes accepting
\* without waiting for it: while a handler is between its read and its
\* return, main is not held up and a further accept can succeed.
C8_AcceptNeverWaitsForHandler ==
    (/\ ~exited /\ mainPc = "accept"
     /\ connectionCount < MaxConns
     /\ \E c \in ConnIds : InFlight(c))
        => ENABLED AcceptAny

C8_Witness ==
    \E k \in ConnIds :
        /\ k + 1 \in ConnIds
        /\ InFlight(k)
        /\ conns[k + 1].pc # "none"

\* C9: a peer that never sends stalls only its own handler: while a handler
\* is blocked in its read, every other accepted connection whose peer sends
\* has its handler run to the end and is closed, new connections are still
\* accepted, and the blocked handler stays in its read with its connection
\* open.
C9_StalledPeerStallsOnlyItself ==
    /\ \A c \in ConnIds :
         (/\ InFlight(c) /\ ~conns[c].stalled
          /\ \E d \in ConnIds : d # c /\ Blocked(d))
            ~> (Done(c) /\ ~conns[c].open)
    /\ []((/\ ~exited /\ mainPc = "accept" /\ connectionCount < MaxConns
           /\ \E d \in ConnIds : Blocked(d))
             => ENABLED AcceptAny)
    /\ \A d \in ConnIds : [](Blocked(d) => [](Blocked(d) /\ conns[d].open))

C9_Witness ==
    \E c, d \in ConnIds :
        /\ Blocked(d)
        /\ c > d
        /\ conns[c].ev = <<"read_ok", "enc_ok", "write_ok", "close">>

\* C10: a read, backend or write error in one handler changes nothing
\* outside that handler: the step closes that handler's own connection and
\* ends that handler, and leaves the process running, main where it is, the
\* listening socket, the accept counters and every sibling handler as they
\* were.
C10_HandlerErrorIsLocal ==
    [][\A c \in ConnIds :
          HandlerFails(c) =>
             /\ exited' = exited /\ exitSite' = exitSite
             /\ mainPc' = mainPc
             /\ socks' = socks /\ fd' = fd
             /\ connectionCount' = connectionCount
             /\ acceptErrors' = acceptErrors
             /\ \A d \in ConnIds : d # c => conns'[d] = conns[d]
             /\ conns'[c].pc = "done" /\ ~conns'[c].open]_vars

C10_Witness ==
    \E c, d \in ConnIds :
        /\ c # d
        /\ Done(c) /\ ~conns[c].open
        /\ \E e \in {"read_err", "enc_err", "write_err"} : Has(conns[c].ev, e)
        /\ InFlight(d) /\ conns[d].open
        /\ ~exited /\ mainPc = "accept" /\ socks[fd].open /\ socks[fd].listening

\* C11: no cross-talk: with a backend that tags each reply with its input,
\* the reply written on a connection is the one computed from the payload
\* read on that same connection, in every interleaving of the handlers; no
\* handler holds or writes data derived from another connection's request.
C11_NoCrossTalk ==
    \A c \in ConnIds :
        /\ conns[c].plaintext \in {<<>>, Request(c)}
        /\ conns[c].encrypted \in {<<>>, Ciphertext(Request(c))}
        /\ conns[c].written \in {<<>>, Ciphertext(Request(c))}
        /\ Has(conns[c].ev, "write_ok") => conns[c].written = Ciphertext(Request(c))
        /\ \A d \in ConnIds :
             (d # c /\ Has(conns[c].ev, "write_ok") /\ Has(conns[d].ev, "write_ok"))
                => conns[c].written # conns[d].written

C11_Witness ==
    \E c, d \in ConnIds :
        /\ c < d
        /\ Has(conns[c].ev, "read_ok") /\ Has(conns[d].ev, "read_ok")
        /\ conns[d].written = Ciphertext(Request(d))
        /\ conns[c].pc = "encrypt"

\* ---- claims about one Exchange through the chain (ChainSpec)

\* The line's Exchange ran to the end on every hop: the Outer Relay wrote a
\* reply, the Inner Relay passed one on and the Connector printed a result.
ExchangeSucceeded ==
    /\ Has(outer.ev, "write_ok")
    /\ inner.pc = "done" /\ inner.reply # <<>>
    /\ result.printed

\* The backend answered as the stub that returns base64(P) for the payload P
\* the Outer Relay read.
StubEchoed ==
    /\ kms.called
    /\ kms.resp = Response(TRUE, TRUE, StatusOK, "object", Base64(outer.plaintext))

\* C12: for every request payload under the 4096-byte cap, a successful
\* Exchange against the stub backend that returns base64(P) hands the
\* Connector, through its single read into a 4096-byte buffer, a reply equal
\* to base64(P).  Violated: base64 of more than 3072 bytes is longer than
\* the reply buffer, so the Connector prints a truncated reply.
C12_RoundTrip ==
    (ExchangeSucceeded /\ StubEchoed /\ Len(text) <= BufSize)
        => result.value = Base64(outer.plaintext)

\* C13: in a successful Outer Relay Exchange the bytes written back on the
\* connection are exactly the CiphertextBlob the backend returned for that
\* request: nothing transformed, prefixed or appended.
C13_ReplyIsBlobVerbatim ==
    Has(outer.ev, "write_ok") =>
        /\ kms.called /\ kms.err = <<>>
        /\ outer.encrypted = kms.resp.body.blob
        /\ outer.written = kms.resp.body.blob
        /\ wireOI = kms.resp.body.blob

C13_Witness ==
    /\ Has(outer.ev, "write_ok")
    /\ Len(outer.plaintext) > 0
    /\ kms.resp.body.blob = Base64(CipherTag \o outer.plaintext)
    /\ wireOI = kms.resp.body.blob

\* C14: in every Outer Relay implementation the backend request built for a
\* payload P has Plaintext = base64(P) and KeyId = alias/dev-key, the same
\* for every request.  Violated by the copy in cmd/vsock-proxy/main.go, which
\* puts the raw payload in Plaintext.
C14_RequestIsBase64 ==
    kms.called =>
        kms.req = [KeyId |-> "alias/dev-key", Plaintext |-> Base64(outer.plaintext)]

\* The error of encryptWithKMS for a non-success status: it carries the
\* status and the body (part_001:306-308).
IsBackendError(err) == Len(err) = 3 /\ err[1] = "status"

Is2xx(status) == 200 <= status /\ status <= 299

\* The backend answered and the body was read; the handler went on from the
\* encrypt call with the ciphertext and reached the write.
BackendAnswered == kms.called /\ kms.resp.sent /\ kms.resp.readable

EncryptYieldedReply ==
    /\ kms.err = <<>>
    /\ Has(outer.ev, "enc_ok")
    /\ outer.encrypted = kms.resp.body.blob
    /\ \/ outer.pc = "write"
       \/ Has(outer.ev, "write_ok") /\ outer.written = kms.resp.body.blob
       \/ Has(outer.ev, "write_err")

\* C15 as stated: encrypt fails with a BackendError exactly when the status
\* is non-2xx, and every 2xx status with a well-formed JSON body yields the
\* ciphertext and a written reply.  Violated: the code accepts 200 only, so
\* 201 and 204 are BackendErrors.
C15_BackendErrorIffNon2xx ==
    BackendAnswered =>
        /\ IsBackendError(kms.err) <=> ~Is2xx(kms.resp.status)
        /\ (Is2xx(kms.resp.status) /\ kms.resp.body.json = "object")
               => EncryptYieldedReply

\* C15 amended: encrypt fails with a BackendError, carrying the status and
\* the body, exactly when the status is not 200 (201 and 204 included); a
\* 200 with a JSON body that decodes yields the CiphertextBlob and the relay
\* goes on to write it; a BackendError leaves no reply.
C15_BackendErrorIffNot200 ==
    BackendAnswered =>
        /\ IsBackendError(kms.err) <=> kms.resp.status # StatusOK
        /\ IsBackendError(kms.err) =>
               /\ kms.err = <<"status", kms.resp.status, kms.resp.body>>
               /\ outer.encrypted = <<>> /\ outer.written = <<>> /\ wireOI = <<>>
               /\ outer.pc = "done" /\ ~outer.open
        /\ (kms.resp.status = StatusOK /\ kms.resp.body.json = "object")
               => EncryptYieldedReply

C15_Witness ==
    /\ BackendAnswered
    /\ kms.resp.status = 201
    /\ kms.resp.body.json = "object"
    /\ IsBackendError(kms.err)
    /\ outer.pc = "done"

\* C16: a response with success status whose body is not well-formed JSON
\* makes encrypt return a decode error with an empty result; the Outer Relay
\* then writes no reply and closes the connection; encrypt never returns
\* both an error and a non-empty ciphertext.
C16_DecodeErrorNoReply ==
    /\ (BackendAnswered /\ kms.resp.status = StatusOK /\ kms.resp.body.json # "object")
          => /\ kms.err = <<"parse">>
             /\ outer.encrypted = <<>>
             /\ outer.written = <<>> /\ wireOI = <<>>
             /\ ~Has(outer.ev, "write_ok") /\ ~Has(outer.ev, "write_err")
             /\ outer.pc = "done" /\ ~outer.open /\ Has(outer.ev, "close")
    /\ (kms.called /\ kms.err # <<>>) => outer.encrypted = <<>>

C16_Witness ==
    /\ BackendAnswered
    /\ kms.resp.status = StatusOK
    /\ kms.resp.body.json # "object"
    /\ kms.resp.body.blob # <<>>
    /\ kms.err = <<"parse">>
    /\ outer.pc = "done" /\ ~outer.open

\* ---- startup configuration check (Spec)

\* C17: whatever the outcome of the startup configuration check (a call that
\* cannot be made, a non-success status, an unparseable body, success), the
\* Outer Relay goes on to create, bind and listen on its socket and to serve
\* encrypt calls: no outcome of the check ends the process.
C17_ConfigCheckNotFatal ==
    /\ exitSite # "kmscheck"
    /\ (variant = "part_001" /\ mainPc # "start") => kmsCheck \in {"ok", "err"}
    /\ (mainPc = "socket" /\ exitSite = "none") => (~exited /\ ENABLED SocketOk)
    /\ \A keys, aliases \in CallOutcomes :
          checkKMSConfiguration(keys, aliases) \in {"ok", "err"}

C17_Witness ==
    /\ kmsCheck = "err"
    /\ mainPc = "accept" /\ ~exited
    /\ socks[fd].bound /\ socks[fd].listening
    /\ \E c \in ConnIds : Has(conns[c].ev, "write_ok")

\* ---- the Connector's loop (ChainSpec)

\* a network call of the Connector for the current line
NetworkEvents ==
    {"socket_ok", "socket_err", "connect_ok", "connect_err",
     "write_ok", "write_err", "read_ok", "read_err"}

\* C18: when the Connector reads the line "exit\n" its loop terminates and
\* no network call is issued for that line: no socket, connect, write or
\* read after the sentinel is read.
C18_ExitTerminatesWithoutNetwork ==
    (lineNo > 0 /\ text = ExitLine) =>
        /\ cPc = "done"
        /\ ~ENABLED ChainNext
        /\ \A e \in NetworkEvents : ~Has(cLog, e)
        /\ ~cOpen
        /\ wireCI = <<>> /\ inner = NoInner /\ outer = NoConn /\ ~kms.called
        /\ ~result.printed

C18_Witness ==
    /\ lineNo = 2
    /\ text = ExitLine
    /\ cPc = "done"

\* C19: for every input line other than exactly "exit\n" ("exit" without
\* newline and " exit\n" included) the Connector does not terminate and,
\* when socket creation and connect succeed, writes exactly that line as the
\* request payload.  Violated by the empty line the Connector gets at end of
\* input: it passes the sentinel test, and after a successful connect the
\* process panics before the write (see C31).
C19_OtherLinesSentVerbatim ==
    (lineNo > 0 /\ text # ExitLine) =>
        /\ cPc \notin {"done", "panic"}
        /\ Has(cLog, "connect_ok") =>
              \/ cPc = "send"
              \/ Has(cLog, "write_err")
              \/ Has(cLog, "write_ok") /\ wireCI = text

\* The Connector is back at the prompt after working on a line.
LineHandled == lineNo > 0 /\ cPc = "prompt"

\* C20: for each input line the Connector either prints one
\* 'Encrypted result:' line containing a ciphertext or, on any upstream
\* failure (a relay that closes the connection without a reply included),
\* logs an error and prints no output line.  Violated: a connection closed
\* without payload makes the read return 0 bytes and no error, and the
\* Connector prints an empty result without logging an error.
C20_ResultOrLoggedError ==
    LineHandled =>
        \/ /\ Count(cLog, "print") = 1
           /\ result.printed /\ result.value # <<>>
           /\ ~Has(cLog, "log_err")
        \/ /\ Has(cLog, "log_err")
           /\ ~Has(cLog, "print") /\ ~result.printed

\* the sockets the Connector has created for the current line and not yet
\* closed, by its log
OpenedNotClosed == Count(cLog, "socket_ok") - Count(cLog, "close")

\* C21: every connection the Connector opens is closed before it prompts for
\* the next line, on every path (connect error, write error, read error,
\* success): it holds at most one open connection at any time and none
\* while waiting for input.
C21_ClosedBeforeNextPrompt ==
    /\ cPc # "panic" => OpenedNotClosed = (IF cOpen THEN 1 ELSE 0)
    /\ cPc \in {"prompt", "socket", "done"} => ~cOpen
    /\ cPc \in {"connect", "send", "recv"} => cOpen
    /\ \A path \in {"connect_err", "write_err", "read_err", "read_ok"} :
          (cPc = "prompt" /\ Has(cLog, path)) =>
              /\ Count(cLog, "close") = 1
              /\ cLog[Len(cLog)] = "close"

C21_Witness ==
    /\ lineNo = 2
    /\ cPc = "prompt"
    /\ Has(cLog, "read_err")
    /\ ~cOpen

\* ---- the Outer Relay handler's single read (ChainSpec, a client connected
\* straight to the Outer Relay)

\* the first n bytes of b
Prefix(b, n) == SubSeq(b, 1, Min(Len(b), n))

\* The handler went on normally from its read: it called the backend with
\* what it read, or is about to.
ProceededFromRead ==
    /\ ~Has(outer.ev, "read_err")
    /\ outer.pc = "encrypt" \/ kms.called
    /\ kms.called => kms.req = KMSEncryptRequest(variant, outer.plaintext)

\* C22: the handler reads the request with a 4096-byte cap: a request of
\* exactly 4096 bytes arriving in one read is passed to the backend whole,
\* a longer one as its first 4096 bytes only, with no error raised and the
\* Exchange going on normally.
C22_ReadCap ==
    (peer.pc = "sent" /\ Has(outer.ev, "read_ok") /\ Len(peer.request) >= BufSize)
        => /\ outer.plaintext = Prefix(peer.request, BufSize)
           /\ Len(outer.plaintext) = BufSize
           /\ Len(peer.request) = BufSize => outer.plaintext = peer.request
           /\ ProceededFromRead

C22_Witness ==
    /\ peer.pc = "sent"
    /\ Len(peer.request) = BufSize + 1
    /\ Len(outer.plaintext) = BufSize
    /\ Has(outer.ev, "write_ok")
    /\ Len(wireIO) = 1

\* ---- startup errors (Spec)

\* C23: at startup a failure to create the socket (at first or when it is
\* recreated for a bind retry) and a failure to listen are each fatal at
\* once and never retried; bind is the only startup step that is retried.
C23_SocketAndListenFatal ==
    /\ (~exited /\ mainPc = "socket") =>
          /\ ENABLED (SocketFail /\ exited' /\ exitSite' = "socket")
          /\ ~ENABLED (SocketFail /\ ~exited')
    /\ (~exited /\ mainPc = "resocket") =>
          /\ ENABLED (ResocketFail /\ exited' /\ exitSite' = "resocket")
          /\ ~ENABLED (ResocketFail /\ ~exited')
    /\ (~exited /\ mainPc = "listen") =>
          /\ ENABLED (ListenFail /\ exited' /\ exitSite' = "listen")
          /\ ~ENABLED (ListenFail /\ ~exited')
    /\ exited => ~ENABLED Startup
    /\ exitSite \in {"socket", "resocket", "listen"} => (exited /\ mainPc = exitSite)
    /\ Len(socks) <= bindFailures + 1
    /\ \A k \in DOMAIN socks : socks[k].listening => k = Len(socks)

C23_Witness ==
    /\ bindFailures = 2 /\ bindAttempts = 3
    /\ exited /\ exitSite = "listen"
    /\ Len(socks) = 3

\* ---- the listening address (ConfigSpec)

\* s is a decimal number: digits only, at least one
IsDecimal(s) == s # <<>> /\ \A k \in DOMAIN s : s[k] \in Digits

\* C24: the Outer Relay listens on port 8000 when no override is set in the
\* environment, on the overriding port when a valid one is set, and on the
\* same default when the override is invalid.  Violated: the copy with the
\* override (part_001) has the default 9000, and the copy with the default
\* 8000 (cmd/vsock-proxy/main.go) ignores the override.
C24_ListenPort ==
    mainPc \notin {"start", "port"} =>
        addrPort = (IF IsDecimal(portEnv) THEN ScanNumber(portEnv, 0) ELSE 8000)

\* ---- the end-to-end scenario (ChainSpec)

\* "Q0lQSEVSOmhlbGxv"
HelloCiphertext ==
    <<81, 48, 108, 81, 83, 69, 86, 83, 79, 109, 104, 108, 98, 71, 120, 118>>

\* The backend is the stub that answers "hello" with "Q0lQSEVSOmhlbGxv".
StubAnswered ==
    /\ kms.called
    /\ kms.resp = Response(TRUE, TRUE, StatusOK, "object", HelloCiphertext)

\* C25: when the Connector sends "hello\n", the Inner Relay forwards
\* "hello", the Outer Relay calls the Backend Adapter with plaintext "hello",
\* the stub backend returns "Q0lQSEVSOmhlbGxv" and the Connector prints
\* 'Encrypted result: Q0lQSEVSOmhlbGxv', in this order within one chain of
\* Exchanges.
C25_EndToEnd ==
    (lineNo > 0 /\ text = HelloLine) =>
        /\ Has(cLog, "write_ok") => wireCI = HelloLine
        /\ inner.pc = "forwarded" => (inner.req = Hello /\ Has(cLog, "write_ok"))
        /\ Has(outer.ev, "read_ok") =>
              (outer.plaintext = Hello /\ inner.req = Hello)
        /\ kms.called =>
              /\ Has(outer.ev, "read_ok")
              /\ kms.req = KMSEncryptRequest(variant, Hello)
        /\ Has(outer.ev, "write_ok") => (kms.called /\ kms.err = <<>>)
        /\ (StubAnswered /\ Has(outer.ev, "write_ok")) => wireOI = HelloCiphertext
        /\ inner.reply # <<>> => (Has(outer.ev, "write_ok") /\ inner.reply = wireOI)
        /\ (StubAnswered /\ result.printed /\ inner.reply # <<>>) =>
              /\ result.value = HelloCiphertext
              /\ cLog = <<"socket_ok", "connect_ok", "write_ok", "read_ok",
                          "print", "close">>

C25_Witness ==
    /\ text = HelloLine
    /\ inner.req = Hello
    /\ outer.plaintext = Hello
    /\ StubAnswered
    /\ result.printed /\ result.value = HelloCiphertext
    /\ cPc = "prompt"

\* ---- the reply of a successful Exchange (ChainSpec)

\* C26: whenever an Outer Relay Exchange completes successfully (read,
\* backend call and write all succeed) the reply written is a non-empty
\* string, for every backend response the adapter accepts as a success.
\* Violated: a 200 whose JSON object has no CiphertextBlob is accepted, and
\* the handler writes the empty string.
C26_ReplyNonEmpty ==
    (/\ Has(outer.ev, "read_ok") /\ Has(outer.ev, "enc_ok")
     /\ Has(outer.ev, "write_ok"))
        => outer.written # <<>>

\* ---- short reads (ChainSpec, a client connected straight to the Outer
\* Relay)

\* the handler's reads so far
Reads == Count(outer.ev, "read_ok") + Count(outer.ev, "read_err")

\* C27: a short read is accepted as it is: when a request arrives in two
\* segments the handler takes the bytes its single read returned as the
\* payload, calls the backend with that prefix, and never reads the rest
\* before it replies and closes.
C27_ShortReadAccepted ==
    peer.pc = "sent" =>
        /\ Reads <= 1
        /\ Has(outer.ev, "read_ok") =>
              /\ outer.plaintext \o wireIO \o peer.pending = peer.request
              /\ kms.called => kms.req = KMSEncryptRequest(variant, outer.plaintext)
        /\ outer.pc = "done" => (~outer.open /\ Reads = 1)

C27_Witness ==
    /\ peer.pc = "sent"
    /\ peer.request = Hello
    /\ outer.plaintext = SubSeq(Hello, 1, 2)
    /\ wireIO = SubSeq(Hello, 3, 5)
    /\ Has(outer.ev, "write_ok")
    /\ outer.pc = "done" /\ ~outer.open

\* ---- bind backoff (Spec)

\* C28: (part_001) one 2-second backoff follows each of the first four
\* failed bind attempts and precedes the next attempt, so exactly k-1
\* backoffs precede the k-th attempt; no backoff follows a successful bind
\* or the fifth failure.
C28_BackoffPlacement ==
    variant = "part_001" =>
        /\ backoffs <= maxRetries - 1
        /\ (mainPc = "bind" /\ ~exited) =>
              (backoffs = bindAttempts /\ bindFailures = bindAttempts)
        /\ mainPc = "sleep" =>
              (backoffs = bindFailures - 1 /\ bindFailures <= maxRetries - 1)
        /\ mainPc = "resocket" => backoffs = bindFailures
        /\ mainPc \in {"listen", "accept"} =>
              (backoffs = bindFailures /\ bindAttempts = bindFailures + 1)
        /\ exitSite = "bind" =>
              (bindFailures = maxRetries /\ backoffs = maxRetries - 1)

C28_Witness ==
    /\ variant = "part_001"
    /\ exitSite = "bind"
    /\ bindAttempts = maxRetries
    /\ backoffs = maxRetries - 1

\* ---- Connector errors (ChainSpec)

\* the calls of one kind made for the current line
Calls(ok, err) == Count(cLog, ok) + Count(cLog, err)

\* C29: a Connector failure at socket creation, connect, write or read
\* gives up the current line only, without retry (at most one socket, one
\* connect, one write and one read per line), and the Connector is back at
\* its prompt, where a later line can still complete a successful Exchange;
\* no such error terminates the Connector.
C29_ErrorAbortsLineOnly ==
    /\ Calls("socket_ok", "socket_err") <= 1
    /\ Calls("connect_ok", "connect_err") <= 1
    /\ Calls("write_ok", "write_err") <= 1
    /\ Calls("read_ok", "read_err") <= 1
    /\ Count(cLog, "log_err") <= 1
    /\ Has(cLog, "log_err") =>
          /\ cPc = "prompt"
          /\ ~Has(cLog, "print")
          /\ lineNo < MaxLines => ENABLED Prompt(HelloLine)
    /\ aborts <= lineNo
    /\ cPc = "done" => text = ExitLine
    /\ cPc = "panic" => text = <<>>

C29_Witness ==
    /\ aborts >= 1
    /\ lineNo = 2
    /\ cPc = "prompt"
    /\ ~Has(cLog, "log_err")
    /\ result.printed /\ result.value = HelloCiphertext
    /\ Has(outer.ev, "write_ok")

\* ---- a client that closes without sending (ChainSpec)

\* The client connected straight to the Outer Relay sends nothing.
SilentPeer == peer.pc = "sent" /\ peer.request = <<>>

\* C30: when a peer connects and closes without sending, so that the
\* handler's read returns zero bytes and no error, the handler does not give
\* up: it takes the empty payload as a request, calls the backend with an
\* empty plaintext and tries to write the result.
C30_EmptyRequestServed ==
    SilentPeer =>
        /\ outer.pc = "read" =>
              ENABLED (OuterRead(FALSE) /\ outer'.pc = "encrypt")
        /\ Has(outer.ev, "read_ok") =>
              /\ outer.plaintext = <<>>
              /\ ProceededFromRead
              /\ kms.called => kms.req.Plaintext = <<>>
              /\ (kms.called /\ kms.err = <<>>) =>
                    \/ outer.pc = "write"
                    \/ Has(outer.ev, "write_ok") \/ Has(outer.ev, "write_err")

C30_Witness ==
    /\ SilentPeer
    /\ outer.ev = <<"read_ok", "enc_ok", "write_ok", "close">>
    /\ kms.req.Plaintext = <<>>
    /\ outer.written = Base64(CipherTag)

\* ---- the Connector's send step (ChainSpec)

\* C31: every payload that reaches the Connector's send step is non-empty
\* and ends with a newline, so that dropping its last byte for the log line
\* is always in bounds; end of input on the console (an empty line, the read
\* error ignored) never reaches the send step.  Violated: the empty line
\* passes the sentinel test, reaches the send step after a successful
\* connect and the slice panics; "exit" at end of input reaches it too.
C31_SendPayloadEndsWithNewline ==
    /\ (cPc = "send" \/ Has(cLog, "connect_ok")) =>
          (Len(text) > 0 /\ text[Len(text)] = 10)
    /\ cPc # "panic"

\* ---- connection identifiers (Spec)

Accepted(c) == conns[c].pc # "none"
AcceptedCount == Cardinality({c \in ConnIds : Accepted(c)})

\* C32: the identifiers handed to handlers are exactly 1, 2, ... in accept
\* order, each handed out once: the counter equals the number of successful
\* accepts so far, a step changes it only by accepting a connection (by one,
\* and the new handler gets the new value), a failed accept and every
\* handler step leave it alone, and a handler keeps its identifier.
C32_ConnectionIDs ==
    /\ [](/\ connectionCount = AcceptedCount
          /\ {conns[c].connID : c \in {d \in ConnIds : Accepted(d)}}
                = 1..AcceptedCount
          /\ \A c, d \in ConnIds :
                (Accepted(c) /\ Accepted(d) /\ c # d) =>
                   conns[c].connID # conns[d].connID)
    /\ [][/\ connectionCount' # connectionCount =>
               /\ connectionCount' = connectionCount + 1
               /\ acceptErrors' = acceptErrors
               /\ \E c \in ConnIds :
                     /\ ~Accepted(c) /\ Accepted(c)'
                     /\ conns'[c].connID = connectionCount'
                     /\ \A d \in ConnIds :
                           Accepted(d) => conns[d].connID < conns'[c].connID
          /\ acceptErrors' # acceptErrors => connectionCount' = connectionCount
          /\ \A c \in ConnIds :
                /\ Accepted(c) => conns'[c].connID = conns[c].connID
                /\ (~Accepted(c) /\ Accepted(c)') =>
                      connectionCount' = connectionCount + 1]_vars

\* two handlers hold 1 and 2 although an accept failed between them, and the
\* first has already run to its end
C32_Witness ==
    /\ connectionCount = 2 /\ acceptErrors = 1
    /\ conns[1].connID = 1 /\ conns[1].errsBefore = 0 /\ Done(1)
    /\ conns[2].connID = 2 /\ conns[2].errsBefore = 1 /\ InFlight(2)

\* ---- the listening socket (Spec)

Listener == socks[fd]

\* C33: once main is in its accept loop it stays there and the process
\* keeps running, and in every later state the handle it accepts on is
\* open, bound and listening and is the
\* only handle that is: no step taken from the loop (a failed or successful
\* accept, a handler step, a handler's close) changes the handle or any
\* socket behind it, and handles abandoned by bind retries are closed and
\* were never bound.
C33_ListenerStaysOpen ==
    /\ [](mainPc = "accept" =>
            /\ ~exited
            /\ fd \in DOMAIN socks
            /\ Listener.open /\ Listener.bound /\ Listener.listening
            /\ \A k \in DOMAIN socks :
                  k # fd => (~socks[k].open /\ ~socks[k].bound
                                            /\ ~socks[k].listening))
    /\ [][mainPc = "accept" =>
             (mainPc' = "accept" /\ fd' = fd /\ socks' = socks)]_vars

\* after a bind retry replaced the handle, an accept has failed, one handler
\* has ended on an error and another has completed, and main still accepts
C33_Witness ==
    /\ mainPc = "accept" /\ bindFailures >= 1 /\ fd > 1
    /\ Listener.open /\ Listener.listening
    /\ acceptErrors >= 1
    /\ \E c, d \in ConnIds :
          /\ Done(c) /\ \E e \in {"read_err", "enc_err", "write_err"} :
                           Has(conns[c].ev, e)
          /\ Done(d) /\ Has(conns[d].ev, "write_ok")

\* ---- the startup configuration check (KmsSpec)

Unreachable(o) == o \in {"new_fail", "send_fail", "read_fail"}
Warned(o) == o \in {"bad_status", "unparseable"}

\* C34: after the check has run, it has reported failure exactly when one of
\* its calls could not be made or its body could not be read; a non-200
\* status or an unparseable body on either call leaves the result at
\* success; and when the list-keys call failed that way the list-aliases
\* call was not made, while otherwise both calls were made, in that order.
C34_CheckFailsOnlyOnTransport ==
    (variant = "part_001" /\ mainPc # "start") =>
       LET keys == kmsReply[1]
           aliases == kmsReply[2]
       IN  /\ kmsCheck = "err" <=> (Unreachable(keys) \/ Unreachable(aliases))
           /\ ((Warned(keys) \/ Warned(aliases))
                 /\ ~Unreachable(keys) /\ ~Unreachable(aliases)) =>
                 kmsCheck = "ok"
           /\ Unreachable(keys) => ~Has(kmsCalls, "ListAliases")
           /\ ~Unreachable(keys) => kmsCalls = <<"ListKeys", "ListAliases">>

\* the keys call came back with a bad status and the aliases body did not
\* parse: both calls were made and the check reported success; the relay
\* went on to accept
C34_Witness ==
    /\ variant = "part_001" /\ mainPc = "accept"
    /\ kmsReply = <<"bad_status", "unparseable">>
    /\ kmsCalls = <<"ListKeys", "ListAliases">>
    /\ kmsCheck = "ok"

\* ---- the two copies of the connection handler (PairSpec)

====
